---- MODULE Spec2Model ----
(***************************************************************************)
(* A model of app.py: the Notion -> GeoJSON feed.                          *)
(*                                                                         *)
(*   - text extraction from Notion property values (_plain_from_* and      *)
(*     _read_text_flex), polygon parsing (_read_polygon_geometry);         *)
(*   - build_geojson, the per-record try/skip loop;                        *)
(*   - fetch_all_pages, the pagination / 429 loop, and the '/' handler     *)
(*     serve_geojson, run by several requests at once.                     *)
(*                                                                         *)
(* A Python str is a sequence of symbols (one-symbol strings); a Python    *)
(* dict is a function whose DOMAIN is its key set; None is the value None. *)
(* A call that may raise returns Ok(v) or Raise(e).                        *)
(***************************************************************************)
EXTENDS Integers, Sequences, FiniteSets, TLC

VARIABLES
    tProp, tText, tPc,                  \* one call of _read_text_flex
    bPages, bIdx, bFeatures, bOut, bPc, \* one call of build_geojson
    pc, pages, payload, out,            \* the '/' handler, per request
    log, epoch                          \* what each request exchanged with the upstream

textVars  == <<tProp, tText, tPc>>
buildVars == <<bPages, bIdx, bFeatures, bOut, bPc>>
fetchVars == <<pc, pages, payload, out, log, epoch>>
vars      == <<tProp, tText, tPc, bPages, bIdx, bFeatures, bOut, bPc,
               pc, pages, payload, out, log, epoch>>

-----------------------------------------------------------------------------
(* Bounds of the model.                                                    *)

MaxArr == 3        \* elements of a rollup array
MaxRecords == 3    \* records handed to build_geojson
MaxPages == 2      \* successful pages the upstream serves to one fetch
MaxResults == 2    \* records on one page
Max429 == 2        \* 429 answers the upstream gives to one fetch
MaxCalls == 2      \* successive calls of '/' by one client

-----------------------------------------------------------------------------
(* Python values.                                                          *)

None == [py_none |-> TRUE]

Ok(v) == [ok |-> TRUE, val |-> v]

Raise(e) == [ok |-> FALSE, err |-> e]

\* d.get(k, default)
Get(d, k, default) == IF k \in DOMAIN d THEN d[k] ELSE default

\* d.get(k) where the value is a str and is only tested or or-ed: an absent key
\* gives None, which `or` and `if` treat as they treat ""
GetStr(d, k) == IF k \in DOMAIN d THEN d[k] ELSE <<>>

\* bool(x) for x a dict or None
Truthy(x) == x # None /\ DOMAIN x # {}

\* x or y, for x a dict or None
OrElse(x, y) == IF Truthy(x) THEN x ELSE y

\* x or y, for x a str
OrElseStr(x, y) == IF x # <<>> THEN x ELSE y

\* "".join(parts)
RECURSIVE Concat(_)
Concat(parts) ==
    IF parts = <<>> THEN <<>> ELSE Head(parts) \o Concat(Tail(parts))

\* sep.join(parts)
RECURSIVE Join(_, _)
Join(sep, parts) ==
    IF parts = <<>> THEN <<>>
    ELSE IF Len(parts) = 1 THEN parts[1]
    ELSE parts[1] \o sep \o Join(sep, Tail(parts))

CommaSpace == <<",", " ">>

IsSpace(c) == c \in {" ", "\n"}

RECURSIVE LStrip(_)
LStrip(s) ==
    IF s # <<>> /\ IsSpace(Head(s)) THEN LStrip(Tail(s)) ELSE s

RECURSIVE RStrip(_)
RStrip(s) ==
    IF s # <<>> /\ IsSpace(s[Len(s)]) THEN RStrip(SubSeq(s, 1, Len(s) - 1)) ELSE s

\* s.strip()
Strip(s) == RStrip(LStrip(s))

Digit(d) == <<"0", "1", "2", "3", "4", "5", "6", "7", "8", "9">>[d + 1]

\* str(n) for an int n
RECURSIVE Str(_)
Str(n) ==
    IF n < 0 THEN <<"-">> \o Str(-n)
    ELSE IF n < 10 THEN <<Digit(n)>>
    ELSE Str(n \div 10) \o <<Digit(n % 10)>>

NoneStr == <<"N", "o", "n", "e">>

-----------------------------------------------------------------------------
(* Helpers: generic text extraction.                                       *)

PlainTexts(runs) == [i \in 1..Len(runs) |-> Get(runs[i], "plain_text", <<>>)]

PlainFromRichOrTitle(prop) ==
    IF "rich_text" \in DOMAIN prop THEN Strip(Concat(PlainTexts(prop.rich_text)))
    ELSE IF "title" \in DOMAIN prop THEN Strip(Concat(PlainTexts(prop.title)))
    ELSE <<>>

\* sel["name"] raises KeyError on a non-empty option without a name
PlainFromSelect(prop) ==
    LET sel == Get(prop, "select", None)
    IN  IF Truthy(sel)
        THEN IF "name" \in DOMAIN sel THEN Ok(sel.name) ELSE Raise("KeyError")
        ELSE Ok(<<>>)

PlainFromMultiSelect(prop) ==
    LET arr == Get(prop, "multi_select", <<>>)
        named == SelectSeq(arr, LAMBDA opt : Get(opt, "name", <<>>) # <<>>)
    IN  Join(CommaSpace, [i \in 1..Len(named) |-> Get(named[i], "name", <<>>)])

\* u.get("name") or (u.get("person") or {}).get("email", "")
PersonName(u) ==
    OrElseStr(GetStr(u, "name"),
              Get(OrElse(Get(u, "person", None), <<>>), "email", <<>>))

PlainFromPeople(prop) ==
    LET arr == Get(prop, "people", <<>>)
        names == [i \in 1..Len(arr) |-> PersonName(arr[i])]
    IN  Join(CommaSpace, SelectSeq(names, LAMBDA n : n # <<>>))

\* str(r.get("number", "")): a JSON number n is the value [int |-> n]
NumberStr(r) ==
    IF "number" \notin DOMAIN r THEN <<>>
    ELSE IF r.number = None THEN NoneStr
    ELSE Str(r.number.int)

\* d = r.get("date") or {};  d.get("start") or ""
DateStart(r) ==
    LET d == OrElse(Get(r, "date", None), <<>>)
    IN  OrElseStr(GetStr(d, "start"), <<>>)

\* the first exception among a list of results, or Ok of their values
Collect(results) ==
    LET bad == {i \in 1..Len(results) : ~results[i].ok}
    IN  IF bad = {} THEN Ok([i \in 1..Len(results) |-> results[i].val])
        ELSE results[CHOOSE i \in bad : \A j \in bad : i <= j]

\* JoinVals without the filter: ", ".join(vals)
JoinAllVals(vals) == Join(CommaSpace, vals)

\* ", ".join([v for v in vals if v])
JoinVals(vals) == Join(CommaSpace, SelectSeq(vals, LAMBDA v : v # <<>>))

RECURSIVE ReadTextFlex(_)
PlainFromRollup(prop) ==
    LET r == Get(prop, "rollup", <<>>)
        t == Get(r, "type", "")   \* None equals no type name, as "" does
    IN  IF t = "array"
        THEN LET arr == Get(r, "array", <<>>)
                 vals == Collect([i \in 1..Len(arr) |-> ReadTextFlex(arr[i])])
             IN  IF vals.ok THEN Ok(JoinVals(vals.val)) ELSE vals
        ELSE IF t = "number" THEN Ok(NumberStr(r))
        ELSE IF t = "date" THEN Ok(DateStart(r))
        ELSE Ok(<<>>)

ReadTextFlex(prop) ==
    IF "select" \in DOMAIN prop THEN PlainFromSelect(prop)
    ELSE IF "multi_select" \in DOMAIN prop THEN Ok(PlainFromMultiSelect(prop))
    ELSE IF "people" \in DOMAIN prop THEN Ok(PlainFromPeople(prop))
    ELSE IF "rollup" \in DOMAIN prop THEN PlainFromRollup(prop)
    ELSE Ok(PlainFromRichOrTitle(prop))

-----------------------------------------------------------------------------
(* Polygon parsing.  json.loads over symbols: the punctuation of JSON, a    *)
(* few string literals, the number 1 and white space.  A parsed value is    *)
(* [t |-> "dict" | "list" | "str" | "num", v |-> ...]; a dict's v maps its   *)
(* keys to parsed values.                                                   *)

StringLiterals ==
    [lit \in {"\"type\"", "\"coordinates\"", "\"Polygon\"", "\"MultiPolygon\"", "\"name\""} |->
        CASE lit = "\"type\"" -> "type"
          [] lit = "\"coordinates\"" -> "coordinates"
          [] lit = "\"Polygon\"" -> "Polygon"
          [] lit = "\"MultiPolygon\"" -> "MultiPolygon"
          [] lit = "\"name\"" -> "name"]

ParseFail == [ok |-> FALSE]

Parsed(v, rest) == [ok |-> TRUE, val |-> v, rest |-> rest]

StartsWith(s, c) == s # <<>> /\ Head(s) = c

\* d[k] = v
DictSet(d, k, v) == [x \in DOMAIN d \cup {k} |-> IF x = k THEN v ELSE d[x]]

RECURSIVE ParseValue(_), ParseMembers(_, _), ParseElements(_, _)

\* after a member: "," and the next member, or "}"
MemberEnd(d, s) ==
    IF StartsWith(s, ",") THEN ParseMembers(LStrip(Tail(s)), d)
    ELSE IF StartsWith(s, "}") THEN Parsed([t |-> "dict", v |-> d], Tail(s))
    ELSE ParseFail

MemberValue(key, pv, acc) ==
    IF pv.ok THEN MemberEnd(DictSet(acc, StringLiterals[key], pv.val), LStrip(pv.rest))
    ELSE ParseFail

MemberColon(key, s, acc) ==
    IF StartsWith(s, ":") THEN MemberValue(key, ParseValue(Tail(s)), acc) ELSE ParseFail

\* the members of an object: "key" : value, then "," or "}"
ParseMembers(s, acc) ==
    IF s # <<>> /\ Head(s) \in DOMAIN StringLiterals
    THEN MemberColon(Head(s), LStrip(Tail(s)), acc)
    ELSE ParseFail

\* after an element: "," and the next element, or "]"
ElementEnd(elems, s) ==
    IF StartsWith(s, ",") THEN ParseElements(Tail(s), elems)
    ELSE IF StartsWith(s, "]") THEN Parsed([t |-> "list", v |-> elems], Tail(s))
    ELSE ParseFail

ElementValue(pv, acc) ==
    IF pv.ok THEN ElementEnd(Append(acc, pv.val), LStrip(pv.rest)) ELSE ParseFail

\* the elements of an array: value, then "," or "]"
ParseElements(s, acc) == ElementValue(ParseValue(s), acc)

ParseObject(s) ==
    IF StartsWith(s, "}") THEN Parsed([t |-> "dict", v |-> <<>>], Tail(s))
    ELSE ParseMembers(s, <<>>)

ParseArray(s) ==
    IF StartsWith(s, "]") THEN Parsed([t |-> "list", v |-> <<>>], Tail(s))
    ELSE ParseElements(s, <<>>)

ParseToken(s) ==
    IF s = <<>> THEN ParseFail
    ELSE IF Head(s) = "{" THEN ParseObject(LStrip(Tail(s)))
    ELSE IF Head(s) = "[" THEN ParseArray(LStrip(Tail(s)))
    ELSE IF Head(s) \in DOMAIN StringLiterals
         THEN Parsed([t |-> "str", v |-> StringLiterals[Head(s)]], Tail(s))
    ELSE IF Head(s) = "1" THEN Parsed([t |-> "num", v |-> 1], Tail(s))
    ELSE ParseFail

ParseValue(s) == ParseToken(LStrip(s))

\* one value, then nothing but white space
WholeText(pv) ==
    IF pv.ok /\ LStrip(pv.rest) = <<>> THEN Ok(pv.val) ELSE Raise("JSONDecodeError")

\* json.loads(raw)
JsonLoads(raw) == WholeText(ParseValue(raw))

IsGeometry(geom) == geom.t = "dict" /\ "type" \in DOMAIN geom.v /\ "coordinates" \in DOMAIN geom.v

\* the minimal validation of what json.loads gave
ValidGeometry(geom) ==
    IF ~geom.ok THEN Raise("ValueError")
    ELSE IF ~IsGeometry(geom.val) THEN Raise("ValueError")
    ELSE geom

ParseRaw(raw) == IF raw = <<>> THEN Raise("ValueError") ELSE ValidGeometry(JsonLoads(raw))

ReadPolygonGeometry(prop) == ParseRaw(PlainFromRichOrTitle(prop))

-----------------------------------------------------------------------------
(* GeoJSON build.                                                          *)

PROP_NETWORK_NAME == "Network Name"

PROP_POLYGON == "Polygon"

PROP_LEADERS == "Network Leaders Names"

\* the Feature of a geometry and two texts, or the first exception met
Feature(geom, network_name, leaders) ==
    IF ~geom.ok THEN geom
    ELSE IF ~network_name.ok THEN network_name
    ELSE IF ~leaders.ok THEN leaders
    ELSE Ok([type |-> "Feature", geometry |-> geom.val,
             properties |-> [Network |-> network_name.val, Leaders |-> leaders.val]])

\* _read_text_flex(props.get(name, {})) if name in props else ""
TextOf(props, name) == IF name \in DOMAIN props THEN ReadTextFlex(props[name]) ELSE Ok(<<>>)

TryProps(props) ==
    IF PROP_POLYGON \notin DOMAIN props THEN Raise("KeyError")
    ELSE Feature(ReadPolygonGeometry(props[PROP_POLYGON]),
                 TextOf(props, PROP_NETWORK_NAME), TextOf(props, PROP_LEADERS))

\* the body of the try block for one page: the Feature, or the exception
TryFeature(p) == TryProps(Get(p, "properties", <<>>))

\* ExceptException narrowed to the missing-property case: except KeyError
ExceptKeyError(err) == err = "KeyError"

\* except Exception: every exception a page can raise here is an Exception
ExceptException(err) == err \in {"KeyError", "ValueError", "TypeError", "AttributeError"}

\* AppendOrSkip with features.insert(0, ...) for features.append(...)
AppendAtFront(features, f) ==
    IF f.ok THEN [features |-> <<f.val>> \o features, raised |-> FALSE]
    ELSE [features |-> features, raised |-> FALSE]

AppendOrSkip(features, f) ==
    IF f.ok THEN [features |-> Append(features, f.val), raised |-> FALSE]
    ELSE IF ExceptException(f.err) THEN [features |-> features, raised |-> FALSE]
    ELSE [features |-> features, raised |-> TRUE]

\* one iteration of the loop: append the Feature, or skip the page
BuildOne(features, p) == AppendOrSkip(features, TryFeature(p))

RECURSIVE BuildFeatures(_, _)
BuildRest(one, ps) == IF one.raised THEN one ELSE BuildFeatures(one.features, ps)

BuildFeatures(features, ps) ==
    IF ps = <<>> THEN [features |-> features, raised |-> FALSE]
    ELSE BuildRest(BuildOne(features, Head(ps)), Tail(ps))

FeatureCollection(features) == [type |-> "FeatureCollection", features |-> features]

Returned(built) ==
    IF built.raised THEN Raise("Exception") ELSE Ok(FeatureCollection(built.features))

build_geojson(ps) == Returned(BuildFeatures(<<>>, ps))

-----------------------------------------------------------------------------
(* One call of _read_text_flex on a property value.                        *)

RichText(s) == [type |-> "rich_text", rich_text |-> <<[plain_text |-> s]>>]

Select(sel) == [type |-> "select", select |-> sel]

Rollup(r) == [type |-> "rollup", rollup |-> r]

\* The items a rollup array is made of.
ArrayItems ==
    { RichText(<<"X">>),
      RichText(<<" ", "Y">>),
      RichText(<<>>),
      [type |-> "rich_text", rich_text |-> <<[plain_text |-> <<"X">>], [href |-> None]>>],
      [type |-> "title", title |-> <<[plain_text |-> <<"Z">>]>>],
      Select([name |-> <<"A">>]),
      Select(None),
      Select([id |-> <<"7">>]),
      [type |-> "multi_select",
       multi_select |-> <<[name |-> <<"A">>], [name |-> <<>>], [name |-> <<"B">>]>>],
      [type |-> "people",
       people |-> <<[name |-> <<"P">>], [person |-> [email |-> <<"e">>]], [id |-> <<"7">>]>>],
      [type |-> "number", number |-> [int |-> 12]],
      Rollup([type |-> "array", array |-> <<RichText(<<"X">>), RichText(<<>>), RichText(<<"Y">>)>>]),
      Rollup([type |-> "number", number |-> [int |-> 7]]) }

SeqsUpTo(S, n) == UNION {[1..k -> S] : k \in 0..n}

RollupProps ==
    { Rollup([type |-> "array", array |-> a]) : a \in SeqsUpTo(ArrayItems, MaxArr) }
    \cup { Rollup([type |-> "number", number |-> [int |-> n]]) : n \in {-3, 0, 7, 12, 105} }
    \cup { Rollup([type |-> "number", number |-> None]),
           Rollup([type |-> "number"]),
           Rollup([type |-> "date", date |-> [start |-> <<"2", "0", "2", "4">>]]),
           Rollup([type |-> "date", date |-> [end |-> <<"2", "0", "2", "5">>]]),
           Rollup([type |-> "date", date |-> None]),
           Rollup([type |-> "date"]),
           Rollup([type |-> "unsupported"]),
           Rollup([function |-> "show_original"]),
           Rollup(<<>>) }

TextInit ==
    /\ tProp \in RollupProps \cup ArrayItems
    /\ tText = None
    /\ tPc = "call"

ReadText ==
    /\ tPc = "call"
    /\ tText' = ReadTextFlex(tProp)
    /\ tPc' = "returned"
    /\ UNCHANGED <<tProp, buildVars, fetchVars>>

-----------------------------------------------------------------------------
(* One call of build_geojson on a list of pages, one loop iteration at a   *)
(* time.                                                                   *)

Runs(texts) == [i \in 1..Len(texts) |-> [plain_text |-> texts[i]]]

PolygonText ==
    << <<"{", "\"type\"", ":", "\"Polygon\"", ",">>,
       <<" ", "\"coordinates\"", ":", "[", "[", "1", ",", "1", "]", "]", "}", "\n">> >>

MultiPolygonText ==
    << <<" ", "{", "\"coordinates\"", ":", "[", "]", ",", "\"type\"", ":", "\"MultiPolygon\"", "}">> >>

\* Polygon properties that _read_polygon_geometry accepts.
GoodPolygons ==
    { [type |-> "rich_text", rich_text |-> Runs(PolygonText)],
      [type |-> "title", title |-> Runs(MultiPolygonText)] }

\* Polygon properties that it refuses: empty, blank, not JSON, not a geometry.
BadPolygons ==
    { [type |-> "rich_text", rich_text |-> <<>>],
      [type |-> "rich_text", rich_text |-> Runs(<< <<" ">>, <<"\n">> >>)],
      [rich_text |-> <<>>, title |-> Runs(MultiPolygonText)],
      [type |-> "rich_text", rich_text |-> Runs(<< <<"{", "\"type\"", ":", "\"Polygon\"", ",">> >>)],
      [type |-> "rich_text", rich_text |-> Runs(<< <<"[", "\"type\"", ",", "\"coordinates\"", "]">> >>)],
      [type |-> "rich_text", rich_text |-> Runs(<< <<"{", "\"coordinates\"", ":", "[", "]", "}">> >>)],
      [type |-> "rich_text", rich_text |-> Runs(<< <<"{", "\"type\"", ":", "\"Polygon\"", ",", "\"name\"", ":", "{", "\"coordinates\"", ":", "1", "}", "}">> >>)] }

North == <<"N", "o", "r", "t", "h">>

NetworkProps ==
    { Select([name |-> North]),
      Select([id |-> <<"7">>]) }

Leaders == [type |-> "multi_select", multi_select |-> <<[name |-> <<"A">>], [name |-> <<"B">>]>>]

\* a rollup with an item that _read_text_flex raises on
RaisingLeaders ==
    Rollup([type |-> "array", array |-> <<RichText(<<"X">>), Select([id |-> <<"7">>])>>])

Page(id, props) == [id |-> id, properties |-> props]

\* The records build_geojson is tried on.
PagePool ==
    { Page("good", (PROP_POLYGON :> g)) : g \in GoodPolygons }
    \cup { Page("full", (PROP_POLYGON :> [type |-> "rich_text", rich_text |-> Runs(PolygonText)])
                        @@ (PROP_NETWORK_NAME :> n) @@ (PROP_LEADERS :> Leaders)) :
             n \in NetworkProps }
    \cup { Page("bad", (PROP_POLYGON :> b) @@ (PROP_NETWORK_NAME :> Select([name |-> North]))) :
             b \in BadPolygons }
    \cup { Page("leaders", (PROP_POLYGON :> [type |-> "title", title |-> Runs(MultiPolygonText)])
                           @@ (PROP_LEADERS :> RaisingLeaders)),
           Page("nopolygon", (PROP_NETWORK_NAME :> Select([name |-> North]))),
           [id |-> "bare"] }

BuildInit ==
    /\ bPages \in SeqsUpTo(PagePool, MaxRecords)
    /\ bIdx = 1
    /\ bFeatures = <<>>
    /\ bOut = None
    /\ bPc = "loop"

\* for p in pages: try ... except ...: continue
BuildStep ==
    /\ bPc = "loop"
    /\ bIdx <= Len(bPages)
    /\ \E one \in {BuildOne(bFeatures, bPages[bIdx])} :
           /\ bFeatures' = one.features
           /\ bPc' = IF one.raised THEN "raised" ELSE "loop"
    /\ bIdx' = bIdx + 1
    /\ UNCHANGED <<bPages, bOut, textVars, fetchVars>>

\* return {"type": "FeatureCollection", "features": features}
BuildReturn ==
    /\ bPc = "loop"
    /\ bIdx > Len(bPages)
    /\ bOut' = FeatureCollection(bFeatures)
    /\ bPc' = "returned"
    /\ UNCHANGED <<bPages, bIdx, bFeatures, textVars, fetchVars>>

-----------------------------------------------------------------------------
(* Notion fetch and the '/' handler.  Each client calls '/' and waits for   *)
(* the response; the calls of different clients run at the same time.  A   *)
(* step is one iteration of the loop of fetch_all_pages: one POST, the     *)
(* upstream's answer, and everything the code does with it up to the next  *)
(* POST (or, after the last page, up to the handler's response).           *)

Clients == {"a", "b"}

PageSize == 100

\* time.sleep arguments, in hundredths of a second
RateLimitSleep == 100

PoliteSleep == 35

\* NewPages for an accumulator that outlives the call (a module-level list)
KeptPages(old) == old

\* pages = []
NewPages(old) == <<>>

\* payload = {"page_size": 100}
NewPayload(old) == [page_size |-> PageSize]

\* resp.raise_for_status() raises HTTPError
RaisesForStatus(status) == 400 <= status /\ status < 600

PostEv(json) == [ev |-> "post", json |-> json]

RespEv(resp) == [ev |-> "resp", resp |-> resp]

SleepEv(t) == [ev |-> "sleep", t |-> t]

\* what the handler answers
Response(fc) == [status |-> 200, json |-> fc]

ServerError == [status |-> 500]

(* One loop iteration, resp being the answer to the POST of payload pl: the *)
(* locals of fetch_all_pages after it, what the call did (ev), and how it  *)
(* goes on: "fetch" (the next iteration), "return" or "raise".             *)

\* OnRateLimit with the payload rebuilt before the retry
OnRateLimitFromStart(pgs, pl, resp) ==
    [pages |-> pgs, payload |-> NewPayload(pl), to |-> "fetch",
     ev |-> <<PostEv(pl), RespEv(resp), SleepEv(RateLimitSleep)>>]

\* OnRateLimit without the 429 test: raise_for_status raises on the 429
OnRateLimitRaise(pgs, pl, resp) ==
    [pages |-> pgs, payload |-> pl, to |-> "raise", ev |-> <<PostEv(pl), RespEv(resp)>>]

\* if resp.status_code == 429: time.sleep(1); continue
OnRateLimit(pgs, pl, resp) ==
    [pages |-> pgs, payload |-> pl, to |-> "fetch",
     ev |-> <<PostEv(pl), RespEv(resp), SleepEv(RateLimitSleep)>>]

\* OnError with the error swallowed: the loop ends and pages is returned
OnErrorReturnPartial(pgs, pl, resp) ==
    [pages |-> pgs, payload |-> pl, to |-> "return", ev |-> <<PostEv(pl), RespEv(resp)>>]

\* resp.raise_for_status() raising
OnError(pgs, pl, resp) ==
    [pages |-> pgs, payload |-> pl, to |-> "raise", ev |-> <<PostEv(pl), RespEv(resp)>>]

\* Extend with the new page put before the earlier ones
ExtendFront(pgs, results) == results \o pgs

\* pages.extend(results)
Extend(pgs, results) == pgs \o results

\* NextPayload with the cursor not taken over
NextPayloadStale(pl, data) == pl

\* payload["start_cursor"] = data["next_cursor"]
NextPayload(pl, data) == DictSet(pl, "start_cursor", data.next_cursor)

\* has_more: set the cursor, time.sleep(0.35), and go round again
OnMore(extended, pl, resp) ==
    [pages |-> extended, payload |-> NextPayload(pl, resp.json), to |-> "fetch",
     ev |-> <<PostEv(pl), RespEv(resp), SleepEv(PoliteSleep)>>]

\* data["next_cursor"] raising KeyError
OnKeyError(extended, pl, resp) ==
    [pages |-> extended, payload |-> pl, to |-> "raise", ev |-> <<PostEv(pl), RespEv(resp)>>]

\* OnLast without the break
OnLastContinue(extended, pl, resp) ==
    [pages |-> extended, payload |-> pl, to |-> "fetch", ev |-> <<PostEv(pl), RespEv(resp)>>]

\* else: break;  return pages
OnLast(extended, pl, resp) ==
    [pages |-> extended, payload |-> pl, to |-> "return", ev |-> <<PostEv(pl), RespEv(resp)>>]

AfterExtend(extended, pl, resp) ==
    IF Get(resp.json, "has_more", FALSE)
    THEN IF "next_cursor" \in DOMAIN resp.json
         THEN OnMore(extended, pl, resp)
         ELSE OnKeyError(extended, pl, resp)
    ELSE OnLast(extended, pl, resp)

OnSuccess(pgs, pl, resp) ==
    AfterExtend(Extend(pgs, Get(resp.json, "results", <<>>)), pl, resp)

Iteration(pgs, pl, resp) ==
    IF resp.status = 429 THEN OnRateLimit(pgs, pl, resp)
    ELSE IF RaisesForStatus(resp.status) THEN OnError(pgs, pl, resp)
    ELSE OnSuccess(pgs, pl, resp)

\* serve_geojson once fetch_all_pages has returned pgs
Respond(fc) == IF fc.ok THEN Response(fc.val) ELSE ServerError

Serve(pgs) == Respond(build_geojson(pgs))

(* The upstream.  It stamps every record and every cursor it hands out with *)
(* the call it hands it to (the client and the number of its call), so that *)
(* what one call received can be told from what another did.               *)

Responses200(lg) == SelectSeq(lg, LAMBDA e : e.ev = "resp" /\ e.resp.status = 200)

Count429(lg) == Len(SelectSeq(lg, LAMBDA e : e.ev = "resp" /\ e.resp.status = 429))

RECURSIVE Received(_)
\* the records of the successful responses, in the order they arrived
Received(lg) ==
    IF lg = <<>> THEN <<>>
    ELSE LET e == Head(lg)
         IN  (IF e.ev = "resp" /\ e.resp.status = 200
              THEN Get(e.resp.json, "results", <<>>) ELSE <<>>) \o Received(Tail(lg))

UpstreamRecord(r, call, n) ==
    Page(<<r, call, n>>,
         IF n % 2 = 1
         THEN (PROP_POLYGON :> [type |-> "rich_text", rich_text |-> Runs(PolygonText)])
              @@ (PROP_NETWORK_NAME :> Select([name |-> North]))
         ELSE (PROP_NETWORK_NAME :> Select([name |-> North])))

UpstreamResults(r, k) ==
    LET base == Len(Received(log[r]))
    IN  [i \in 1..k |-> UpstreamRecord(r, epoch[r], base + i)]

UpstreamCursor(r) == <<r, epoch[r], Len(Responses200(log[r])) + 1>>

RateLimit == [status |-> 429]

\* What the upstream may answer: the numbers of records on a page, the error
\* statuses, and how many 429s and how many pages one fetch is given.
Rich ==
    [results |-> 0..MaxResults, errors |-> {400, 500}, max429 |-> Max429, bare |-> TRUE]

\* The same with one record on every page, for the clients running together.
Lean ==
    [results |-> {1}, errors |-> {500}, max429 |-> Max429, bare |-> FALSE]

Errors(u) == {[status |-> st] : st \in u.errors}

MorePages(r, u) ==
    { [status |-> 200,
       json |-> [results |-> UpstreamResults(r, k), has_more |-> TRUE,
                 next_cursor |-> UpstreamCursor(r)]] : k \in u.results }

LastPages(r, u) ==
    { [status |-> 200,
       json |-> [results |-> UpstreamResults(r, k), has_more |-> FALSE,
                 next_cursor |-> None]] : k \in u.results }
    \cup (IF u.bare THEN {[status |-> 200, json |-> <<>>]} ELSE {})

CursorlessPages(r, u) ==
    { [status |-> 200,
       json |-> [results |-> UpstreamResults(r, k), has_more |-> TRUE]] : k \in u.results }

FetchInit ==
    /\ pc = [r \in Clients |-> "idle"]
    /\ pages = [r \in Clients |-> <<>>]
    /\ payload = [r \in Clients |-> <<>>]
    /\ out = [r \in Clients |-> None]
    /\ log = [r \in Clients |-> <<>>]
    /\ epoch = [r \in Clients |-> 0]

\* GET /: serve_geojson calls fetch_all_pages, which sets up its locals
Call(r) ==
    /\ pc[r] \in {"idle", "done", "failed"}
    /\ epoch[r] < MaxCalls
    /\ epoch' = [epoch EXCEPT ![r] = @ + 1]
    /\ pc' = [pc EXCEPT ![r] = "fetch"]
    /\ pages' = [pages EXCEPT ![r] = NewPages(@)]
    /\ payload' = [payload EXCEPT ![r] = NewPayload(@)]
    /\ out' = [out EXCEPT ![r] = None]
    /\ log' = [log EXCEPT ![r] = <<>>]
    /\ UNCHANGED <<textVars, buildVars>>

\* one loop iteration of r's fetch_all_pages, answered resp
Iterate(r, resp) ==
    /\ pc[r] = "fetch"
    /\ \E it \in {Iteration(pages[r], payload[r], resp)} :
           /\ pages' = [pages EXCEPT ![r] = it.pages]
           /\ payload' = [payload EXCEPT ![r] = it.payload]
           /\ log' = [log EXCEPT ![r] = @ \o it.ev]
           /\ pc' = [pc EXCEPT ![r] = CASE it.to = "fetch" -> "fetch"
                                        [] it.to = "raise" -> "failed"
                                        [] it.to = "return" -> "done"]
           /\ out' = [out EXCEPT ![r] = CASE it.to = "fetch" -> None
                                          [] it.to = "raise" -> ServerError
                                          [] it.to = "return" -> Serve(it.pages)]
    /\ UNCHANGED <<epoch, textVars, buildVars>>

RateLimited(r, u) ==
    /\ Count429(log[r]) < u.max429
    /\ Iterate(r, RateLimit)

UpstreamError(r, u) == \E resp \in Errors(u) : Iterate(r, resp)

PageWithMore(r, u) ==
    /\ Len(Responses200(log[r])) + 1 < MaxPages
    /\ \E resp \in MorePages(r, u) : Iterate(r, resp)

PageWithoutCursor(r, u) ==
    /\ Len(Responses200(log[r])) < MaxPages
    /\ \E resp \in CursorlessPages(r, u) : Iterate(r, resp)

LastPage(r, u) ==
    /\ Len(Responses200(log[r])) < MaxPages
    /\ \E resp \in LastPages(r, u) : Iterate(r, resp)

-----------------------------------------------------------------------------
(* Specifications.                                                         *)

TextIdle == tProp = None /\ tText = None /\ tPc = "off"

BuildIdle ==
    bPages = <<>> /\ bIdx = 1 /\ bFeatures = <<>> /\ bOut = None /\ bPc = "off"

\* one client calling '/'
Init == TextIdle /\ BuildIdle /\ FetchInit

Next ==
    \/ Call("a")
    \/ RateLimited("a", Rich)
    \/ UpstreamError("a", Rich)
    \/ PageWithMore("a", Rich)
    \/ PageWithoutCursor("a", Rich)
    \/ LastPage("a", Rich)

Spec == Init /\ [][Next]_vars

\* the same, the handler's thread never stopping for good
SpecLive == Spec /\ WF_vars(Next)

\* clients calling '/' at the same time
NextConc ==
    \E r \in Clients :
        \/ Call(r)
        \/ RateLimited(r, Lean)
        \/ UpstreamError(r, Lean)
        \/ PageWithMore(r, Lean)
        \/ PageWithoutCursor(r, Lean)
        \/ LastPage(r, Lean)

SpecConc == Init /\ [][NextConc]_vars

\* build_geojson alone
InitBuild == TextIdle /\ BuildInit /\ FetchInit

NextBuild == BuildStep \/ BuildReturn

SpecBuild == InitBuild /\ [][NextBuild]_vars

\* _read_text_flex alone
InitText == TextInit /\ BuildIdle /\ FetchInit

NextText == ReadText

SpecText == InitText /\ [][NextText]_vars

-----------------------------------------------------------------------------
(* Properties of build_geojson (SpecBuild).                                *)

HasPolygon(p) == "properties" \in DOMAIN p /\ PROP_POLYGON \in DOMAIN p.properties

PolygonRaw(p) == PlainFromRichOrTitle(p.properties[PROP_POLYGON])

IsMapping(v) == v.t = "dict" /\ {"type", "coordinates"} \subseteq DOMAIN v.v

\* the polygon text is there, is JSON, and is a mapping with both keys
PolygonParses(p) ==
    /\ PolygonRaw(p) # <<>>
    /\ JsonLoads(PolygonRaw(p)).ok
    /\ IsMapping(JsonLoads(PolygonRaw(p)).val)

Described(p, name) ==
    IF name \in DOMAIN p.properties THEN ReadTextFlex(p.properties[name]) ELSE Ok(<<>>)

ValidRecord(p) ==
    /\ HasPolygon(p)
    /\ PolygonParses(p)
    /\ Described(p, PROP_NETWORK_NAME).ok
    /\ Described(p, PROP_LEADERS).ok

ImageOf(p) ==
    [type |-> "Feature",
     geometry |-> JsonLoads(PolygonRaw(p)).val,
     properties |-> [Network |-> Described(p, PROP_NETWORK_NAME).val,
                     Leaders |-> Described(p, PROP_LEADERS).val]]

ImagesOfValid(ps) ==
    LET valid == SelectSeq(ps, ValidRecord)
    IN  [i \in 1..Len(valid) |-> ImageOf(valid[i])]

\* C1: the features are the images of the valid records, one each, in the
\* order of the input: after every iteration for the records gone through,
\* and in the FeatureCollection returned for all of them.
C1_FeaturesAreImagesOfValid ==
    /\ bPc \in {"loop", "returned"} => bFeatures = ImagesOfValid(SubSeq(bPages, 1, bIdx - 1))
    /\ bPc = "returned" =>
           bOut = [type |-> "FeatureCollection", features |-> ImagesOfValid(bPages)]

\* a valid record, a record that is not, and a valid record with another image
C1_Witness ==
    /\ bPc = "returned"
    /\ Len(bPages) = 3
    /\ ValidRecord(bPages[1]) /\ ~ValidRecord(bPages[2]) /\ ValidRecord(bPages[3])
    /\ ImageOf(bPages[1]) # ImageOf(bPages[3])
    /\ bOut.features = <<ImageOf(bPages[1]), ImageOf(bPages[3])>>

BadPolygonRecord(p) == ~(HasPolygon(p) /\ PolygonParses(p))

Without(ps, i) == SubSeq(ps, 1, i - 1) \o SubSeq(ps, i + 1, Len(ps))

\* C2: build_geojson never raises; a record without a usable polygon gives no
\* Feature, and what is returned is what would be returned for the input
\* without that record.
C2_BadRecordsAreSkipped ==
    /\ bPc # "raised"
    /\ bPc = "returned" =>
        /\ bOut.type = "FeatureCollection"
        /\ Len(bOut.features) <= Len(SelectSeq(bPages, LAMBDA p : ~BadPolygonRecord(p)))
        /\ \A i \in 1..Len(bPages) :
               BadPolygonRecord(bPages[i]) => Ok(bOut) = build_geojson(Without(bPages, i))

\* a record with no polygon property and one whose polygon is not JSON, beside
\* a record that gives a Feature
C2_Witness ==
    /\ bPc = "returned"
    /\ \E i, j, k \in 1..Len(bPages) :
           /\ ~HasPolygon(bPages[i])
           /\ HasPolygon(bPages[j]) /\ PolygonRaw(bPages[j]) # <<>>
           /\ ~JsonLoads(PolygonRaw(bPages[j])).ok
           /\ ValidRecord(bPages[k])
    /\ Len(bOut.features) = 1

-----------------------------------------------------------------------------
(* Properties of _read_text_flex on a rollup (SpecText).                   *)

IsRollup(prop) ==
    /\ DOMAIN prop \cap {"select", "multi_select", "people"} = {}
    /\ "rollup" \in DOMAIN prop

InnerType(prop) == Get(prop.rollup, "type", "")

Items(prop) == Get(prop.rollup, "array", <<>>)

ItemTexts(prop) == [i \in 1..Len(Items(prop)) |-> ReadTextFlex(Items(prop)[i])]

AllExtracted(prop) == \A i \in 1..Len(Items(prop)) : ItemTexts(prop)[i].ok

RECURSIVE Joined(_)
\* the texts with ", " between every two
Joined(texts) ==
    IF texts = <<>> THEN <<>>
    ELSE IF Len(texts) = 1 THEN texts[1]
    ELSE Joined(SubSeq(texts, 1, Len(texts) - 1)) \o <<",", " ">> \o texts[Len(texts)]

RECURSIVE NonEmpty(_)
\* the texts that are not empty, in order
NonEmpty(texts) ==
    IF texts = <<>> THEN <<>>
    ELSE IF Head(texts) = <<>> THEN NonEmpty(Tail(texts))
    ELSE <<Head(texts)>> \o NonEmpty(Tail(texts))

Digits == {"0", "1", "2", "3", "4", "5", "6", "7", "8", "9"}

RECURSIVE DigitsValue(_)
DigitsValue(s) ==
    IF s = <<>> THEN 0
    ELSE 10 * DigitsValue(SubSeq(s, 1, Len(s) - 1))
         + (CHOOSE d \in 0..9 : Digit(d) = s[Len(s)])

\* s is the decimal numeral of n
IsDecimalOf(s, n) ==
    LET body == IF n < 0 THEN Tail(s) ELSE s
    IN  /\ s # <<>>
        /\ n < 0 => Head(s) = "-"
        /\ body # <<>>
        /\ \A i \in 1..Len(body) : body[i] \in Digits
        /\ Len(body) > 1 => body[1] # "0"
        /\ DigitsValue(body) = (IF n < 0 THEN -n ELSE n)

HoldsNumber(prop) == "number" \in DOMAIN prop.rollup /\ prop.rollup.number # None

StartDate(prop) ==
    IF "date" \in DOMAIN prop.rollup /\ prop.rollup.date # None
       /\ "start" \in DOMAIN prop.rollup.date
    THEN prop.rollup.date.start ELSE <<>>

\* what holds of a rollup whatever is done with the empty texts of an array
RollupScalars ==
    tPc = "returned" /\ IsRollup(tProp) =>
        /\ InnerType(tProp) = "number" /\ HoldsNumber(tProp) =>
               tText.ok /\ IsDecimalOf(tText.val, tProp.rollup.number.int)
        /\ InnerType(tProp) = "date" => tText = Ok(StartDate(tProp))
        /\ InnerType(tProp) \notin {"array", "number", "date"} => tText = Ok(<<>>)

\* C8 as stated: the text of a rollup array is the texts of all its items,
\* joined with ", "
C8_JoinsEveryItemText ==
    /\ RollupScalars
    /\ tPc = "returned" /\ IsRollup(tProp) /\ InnerType(tProp) = "array" /\ AllExtracted(tProp) =>
           tText = Ok(Joined([i \in 1..Len(Items(tProp)) |-> ItemTexts(tProp)[i].val]))

\* C8, amended: the text of a rollup array is the texts of its items that are
\* not empty, in order, joined with ", "; a number gives its decimal numeral,
\* a date its start, any other inner type the empty text.
C8_JoinsNonEmptyItemTexts ==
    /\ RollupScalars
    /\ tPc = "returned" /\ IsRollup(tProp) /\ InnerType(tProp) = "array" /\ AllExtracted(tProp) =>
           tText = Ok(Joined(NonEmpty([i \in 1..Len(Items(tProp)) |-> ItemTexts(tProp)[i].val])))

\* an array of a text, an item with no text, and a rollup of an array
C8_Witness ==
    /\ tPc = "returned" /\ IsRollup(tProp) /\ InnerType(tProp) = "array"
    /\ Len(Items(tProp)) = 3 /\ AllExtracted(tProp)
    /\ ItemTexts(tProp)[1].val # <<>>
    /\ ItemTexts(tProp)[2].val = <<>>
    /\ IsRollup(Items(tProp)[3]) /\ InnerType(Items(tProp)[3]) = "array"
    /\ tText = Ok(<<"X", ",", " ", "X", ",", " ", "Y">>)

-----------------------------------------------------------------------------
(* Properties of fetch_all_pages and the '/' handler (Spec, SpecLive,      *)
(* SpecConc).                                                              *)

IsPage(e) == e.ev = "resp" /\ e.resp.status = 200

HasMore(e) == IsPage(e) /\ "has_more" \in DOMAIN e.resp.json /\ e.resp.json.has_more

Is429(e) == e.ev = "resp" /\ e.resp.status = 429

\* a status that is neither a success nor the rate limit
IsFailure(e) == e.ev = "resp" /\ e.resp.status >= 400 /\ e.resp.status # 429

IsSleep(e, t) == e.ev = "sleep" /\ e.t = t

Count(lg, Test(_)) == Cardinality({i \in 1..Len(lg) : Test(lg[i])})

RECURSIVE PageRecords(_)
\* the results of the successful pages, one page after the other
PageRecords(lg) ==
    IF lg = <<>> THEN <<>>
    ELSE IF IsPage(lg[Len(lg)]) /\ "results" \in DOMAIN lg[Len(lg)].resp.json
         THEN PageRecords(SubSeq(lg, 1, Len(lg) - 1)) \o lg[Len(lg)].resp.json.results
    ELSE PageRecords(SubSeq(lg, 1, Len(lg) - 1))

\* C3: what fetch_all_pages returns is the results of the successful pages in
\* order of arrival; there is one politeness delay less than there are pages,
\* each right after a has_more page and right before the next POST.
C3_ReturnsEveryPageInOrder ==
    \A r \in Clients : pc[r] = "done" =>
        /\ pages[r] = PageRecords(log[r])
        /\ Count(log[r], LAMBDA e : IsSleep(e, PoliteSleep)) = Count(log[r], IsPage) - 1
        /\ \A i \in 1..Len(log[r]) :
               IsSleep(log[r][i], PoliteSleep) =>
                   /\ i > 1 /\ HasMore(log[r][i - 1])
                   /\ i < Len(log[r]) /\ log[r][i + 1].ev = "post"
        /\ \A i \in 1..Len(log[r]) :
               HasMore(log[r][i]) => i < Len(log[r]) /\ IsSleep(log[r][i + 1], PoliteSleep)
        /\ ~HasMore(log[r][Len(log[r])])

\* two pages of two records each, with 429s on the way
C3_Witness ==
    \E r \in Clients :
        /\ pc[r] = "done"
        /\ Count(log[r], IsPage) = 2
        /\ Count(log[r], Is429) >= 1
        /\ Len(pages[r]) = 4
        /\ pages[r][1] # pages[r][3]

\* what r's step added to its log
Added(r) ==
    IF Len(log'[r]) > Len(log[r]) THEN SubSeq(log'[r], Len(log[r]) + 1, Len(log'[r])) ELSE <<>>

Got429(r) == \E i \in 1..Len(Added(r)) : Is429(Added(r)[i])

\* C4: a 429 changes neither the accumulator nor the payload; it is followed by
\* one sleep of the rate-limit delay and then by the POST of the same payload,
\* and the accumulator holds every page's records once.
C4_RetryIsTheSameRequest ==
    /\ [][\A r \in Clients : Got429(r) =>
              /\ pages'[r] = pages[r]
              /\ payload'[r] = payload[r]
              /\ pc'[r] = "fetch"
              /\ Added(r) = <<PostEv(payload[r]), RespEv([status |-> 429]),
                              SleepEv(RateLimitSleep)>>]_vars
    /\ [](\A r \in Clients : \A i \in 1..Len(log[r]) :
              Is429(log[r][i]) =>
                  /\ i > 1 /\ log[r][i - 1].ev = "post"
                  /\ i < Len(log[r]) /\ IsSleep(log[r][i + 1], RateLimitSleep)
                  /\ i + 2 <= Len(log[r]) => log[r][i + 2] = log[r][i - 1])
    /\ [](\A r \in Clients : pages[r] = PageRecords(log[r]))

\* a 429 on the request for the second page, then that page
C4_Witness ==
    \E r \in Clients : \E i \in 2..Len(log[r]) :
        /\ Is429(log[r][i])
        /\ "start_cursor" \in DOMAIN log[r][i - 1].json
        /\ i + 3 <= Len(log[r])
        /\ IsPage(log[r][i + 3])
        /\ "results" \in DOMAIN log[r][i + 3].resp.json
        /\ log[r][i + 3].resp.json.results # <<>>
        /\ pc[r] = "done"

OnlyRateLimited(lg) == \A i \in 1..Len(lg) : lg[i].ev = "resp" => Is429(lg[i])

\* C6: after k answers that were all 429s the fetch is still in its loop, has
\* slept k times the rate-limit delay, and is about to POST the payload it
\* POSTed every time.
C6_RateLimitedFetchStaysInLoop ==
    \A r \in Clients : pc[r] # "idle" /\ OnlyRateLimited(log[r]) =>
        /\ pc[r] = "fetch"
        /\ out[r] = None
        /\ pages[r] = <<>>
        /\ Len(log[r]) = 3 * Count(log[r], Is429)
        /\ \A i \in 1..Len(log[r]) :
               CASE i % 3 = 1 -> log[r][i] = PostEv(payload[r])
                 [] i % 3 = 2 -> Is429(log[r][i])
                 [] i % 3 = 0 -> log[r][i] = SleepEv(RateLimitSleep)

\* two 429s in a row from the first POST on
C6_Witness ==
    \E r \in Clients :
        /\ pc[r] = "fetch"
        /\ OnlyRateLimited(log[r])
        /\ Count(log[r], Is429) >= 2

StampedFor(id, r) == id[1] = r /\ id[2] = epoch[r]

\* C7: a call starts with no cursor, and holds only records and cursors that
\* the upstream handed to this very call; its response is the one built from
\* the pages it received itself.
C7_CallsShareNothing ==
    \A r \in Clients :
        /\ \A i \in 1..Len(pages[r]) : StampedFor(pages[r][i].id, r)
        /\ "start_cursor" \in DOMAIN payload[r] => StampedFor(payload[r].start_cursor, r)
        /\ log[r] # <<>> => log[r][1] = PostEv([page_size |-> PageSize])
        /\ pages[r] = PageRecords(log[r])
        /\ pc[r] = "done" => out[r] = Serve(PageRecords(log[r]))

\* two calls under way at once with records each, one of them a client's
\* second call
C7_Witness ==
    \E r, q \in Clients :
        /\ r # q
        /\ pc[r] = "fetch" /\ pc[q] = "fetch"
        /\ pages[r] # <<>> /\ pages[q] # <<>>
        /\ "start_cursor" \in DOMAIN payload[r] /\ "start_cursor" \in DOMAIN payload[q]
        /\ epoch[r] = 2

Ended(r) == pc[r] \in {"done", "failed"}

\* C9: an iteration ends the loop, or takes the cursor of a has_more page, or
\* repeats the request after a 429; and a fetch whose upstream stops sending
\* 429s and pages with more to come does end.
C9_FetchTerminates ==
    /\ [][\A r \in Clients : pc[r] = "fetch" /\ Added(r) # <<>> =>
              \/ Ended(r)'
              \/ /\ pc'[r] = "fetch"
                 /\ \E i \in 1..Len(Added(r)) :
                        /\ HasMore(Added(r)[i])
                        /\ payload'[r].start_cursor = Added(r)[i].resp.json.next_cursor
                 /\ payload'[r] # payload[r]
              \/ /\ pc'[r] = "fetch"
                 /\ Got429(r)
                 /\ payload'[r] = payload[r]]_vars
    /\ \A r \in Clients : (pc[r] = "fetch") ~> Ended(r)

\* a fetch that ended after the upstream had given all it may give
C9_Witness ==
    \E r \in Clients :
        /\ Ended(r)
        /\ Count(log[r], Is429) = Max429
        /\ Count(log[r], IsPage) = MaxPages

PagesBefore(lg, i) == {j \in 1..(i - 1) : IsPage(lg[j])}

LastPageBefore(lg, i) == lg[CHOOSE j \in PagesBefore(lg, i) : \A k \in PagesBefore(lg, i) : k <= j]

Cursorless(e) == HasMore(e) /\ "next_cursor" \notin DOMAIN e.resp.json

====
